---------------------------- MODULE Spec2Model ----------------------------
(***************************************************************************)
(* SchedulingClient (src/api/src/api/clients/scheduling.py): the employees *)
(* and schedules tables and the handlers that read and write them.         *)
(*                                                                         *)
(* The connection is opened with autocommit=True, so every                 *)
(* cursor.execute is a transaction of its own.  A handler is therefore a   *)
(* sequence of atomic statements; callers that share the client interleave *)
(* between statements.  Each statement is one step of the calling process. *)
(***************************************************************************)
EXTENDS Integers, Sequences, FiniteSets, TLC

VARIABLES
    employees,   \* rows of <schema>.employees
    schedules,   \* rows of <schema>.schedules
    pc,          \* pc[p]: the statement process p executes next
    op,          \* op[p]: the handler p is in
    arg,         \* arg[p]: the arguments of that call
    loc,         \* loc[p]: the handler's local variables
    ret,         \* ret[p]: how the call ended (returned value, or raised)
    uc,          \* uc[p]: which line _update_employee_counts logged in this call
    pre,         \* the tables as they were when the writing caller's call started
    rules,       \* rows of <schema>.rules
    conn,        \* self.conn: "none" (None), "open", or "closed" (a closed connection)
    live,        \* how many connections the client has opened and not closed
    ready,       \* self._is_query_service_ready
    tables_created, \* self._tables_created
    reachable,   \* whether the store accepts connections
    failedAt,    \* failedAt[p]: the statement of this call that raised, "" if none
    boot         \* the position and locals of init_default_data (main.py)

\* the client object's fields, and the store outside the two main tables
client == <<conn, live, ready, tables_created>>
store == <<rules, reachable>>

vars == <<employees, schedules, pc, op, arg, loc, ret, uc, pre,
          client, store, failedAt, boot>>

-----------------------------------------------------------------------------
(* Bounds *)

NumProcs == 2
NumDates == 2
MaxCountInput == 1
MaxRetries == 2                 \* the largest max_retries a caller passes
NumTodays == 2                  \* the days init_default_data may run on
MaxFaults == 1                  \* statements that fail during one init_default_data
MaxRequests == 1                \* requests served during one init_default_data

Procs == 1..NumProcs
\* the caller of the single-caller specifications
Caller == CHOOSE p \in Procs : \A q \in Procs : p <= q
Dates == 1..NumDates            \* "YYYY-MM-DD" strings, in calendar order
EmployeeNumbers == {"EMP001", "EMP002"}
Names == {"Lars", "Kerstin"}
\* known_absences: a JSON list of dates; metadata: a JSON object (its items)
AbsenceLists == {<<>>, <<1>>}
Metadatas == {{}, {<<"team", "a">>}}

\* Python's None for an optional argument or result (a list of length 0),
\* Some(x) for a value
None == <<>>
Some(x) == <<x>>

-----------------------------------------------------------------------------
(* The tables and the statements the handlers execute on them *)

EmployeeRow(n, name, count, ka, md) ==
    [employee_number |-> n, name |-> name, first_line_support_count |-> count,
     known_absences |-> ka, metadata |-> md]

ScheduleRow(d, n) == [date |-> d, first_line_support |-> n]

EmployeesOf(emps, n) == {e \in emps : e.employee_number = n}

SchedulesOn(scheds, d) == {s \in scheds : s.date = d}

SchedulesFor(scheds, n) == {s \in scheds : s.first_line_support = n}

\* (faulty variant: a schedules table declared without the foreign key)
NoForeignKeyOnWrite(emps, n) == TRUE

\* FOREIGN KEY (first_line_support) REFERENCES employees(employee_number):
\* a schedule row may name n only while an employee row n exists
ForeignKeyHolds(emps, n) == EmployeesOf(emps, n) # {}

\* (faulty variant: the foreign key does not guard the employee row)
NoForeignKeyOnDelete(scheds, n) == FALSE

\* ... and an employee row that a schedule row names cannot be deleted
ForeignKeyBlocksDelete(scheds, n) == SchedulesFor(scheds, n) # {}

\* (faulty variant: DO UPDATE SET also takes EXCLUDED.first_line_support_count)
InsertEmployeeResettingCount(emps, n, name, ka, md) ==
    {e \in emps : e.employee_number # n} \cup {EmployeeRow(n, name, 0, ka, md)}

\* INSERT INTO employees ... ON CONFLICT (employee_number) DO UPDATE SET
\* name, known_absences, metadata
InsertEmployee(emps, n, name, ka, md) ==
    IF EmployeesOf(emps, n) = {}
    THEN emps \cup {EmployeeRow(n, name, 0, ka, md)}
    ELSE {IF e.employee_number = n
          THEN EmployeeRow(n, name, e.first_line_support_count, ka, md)
          ELSE e : e \in emps}

\* (faulty variant: a lookup that answers with a blank row for a missing key)
SelectEmployeeOrBlank(emps, n) ==
    IF EmployeesOf(emps, n) = {} THEN Some(EmployeeRow(n, "", 0, <<>>, {}))
    ELSE Some(CHOOSE e \in EmployeesOf(emps, n) : TRUE)

\* SELECT ... FROM employees WHERE employee_number = n; fetchone()
SelectEmployee(emps, n) ==
    IF EmployeesOf(emps, n) = {} THEN None
    ELSE Some(CHOOSE e \in EmployeesOf(emps, n) : TRUE)

\* UPDATE employees SET name, first_line_support_count, known_absences,
\* metadata WHERE employee_number = n
UpdateEmployeeRow(emps, n, name, count, ka, md) ==
    {IF e.employee_number = n THEN EmployeeRow(n, name, count, ka, md) ELSE e
     : e \in emps}

\* SELECT date FROM schedules WHERE first_line_support = n
SelectDatesOf(scheds, n) == {s.date : s \in SchedulesFor(scheds, n)}

\* (faulty variant: the DELETE lacks its WHERE clause)
DeleteEverySchedule(scheds, n) == {}

\* DELETE FROM schedules WHERE first_line_support = n
DeleteSchedulesOf(scheds, n) == scheds \ SchedulesFor(scheds, n)

\* DELETE FROM employees WHERE employee_number = n
DeleteEmployeeRow(emps, n) == emps \ EmployeesOf(emps, n)

\* (faulty variant: a plain INSERT into a table without the primary key)
InsertScheduleKeepingOld(scheds, d, n) == scheds \cup {ScheduleRow(d, n)}

\* INSERT INTO schedules ... ON CONFLICT (date) DO UPDATE SET
\* first_line_support
InsertSchedule(scheds, d, n) ==
    (scheds \ SchedulesOn(scheds, d)) \cup {ScheduleRow(d, n)}

\* SELECT date, first_line_support FROM schedules WHERE date = d; fetchone()
SelectSchedule(scheds, d) ==
    IF SchedulesOn(scheds, d) = {} THEN None
    ELSE Some(CHOOSE s \in SchedulesOn(scheds, d) : TRUE)

\* UPDATE schedules SET first_line_support = n WHERE date = d
UpdateScheduleRow(scheds, d, n) ==
    {IF s.date = d THEN ScheduleRow(d, n) ELSE s : s \in scheds}

\* DELETE FROM schedules WHERE date = d
DeleteScheduleRow(scheds, d) == scheds \ SchedulesOn(scheds, d)

\* (faulty variant: no count is reset)
ResetNoCount(emps) == emps

\* UPDATE employees SET first_line_support_count = 0
ResetCounts(emps) ==
    {[e EXCEPT !.first_line_support_count = 0] : e \in emps}

\* SELECT first_line_support, COUNT(*) FROM schedules GROUP BY
\* first_line_support
GroupCounts(scheds) ==
    {<<n, Cardinality(SchedulesFor(scheds, n))>> :
        n \in {s.first_line_support : s \in scheds}}

\* UPDATE employees SET first_line_support_count = c WHERE employee_number = n
SetCount(emps, n, c) ==
    {IF e.employee_number = n THEN [e EXCEPT !.first_line_support_count = c]
     ELSE e : e \in emps}

-----------------------------------------------------------------------------
(* Calls: arguments, local variables, results *)

Fields == {"name", "first_line_support_count", "known_absences", "metadata"}

\* updates: Dict[str, Any] of update_employee; a key that is absent is None
NoUpdates ==
    [name |-> None, first_line_support_count |-> None,
     known_absences |-> None, metadata |-> None]

NoArg ==
    [employee_number |-> "", date_str |-> 0, name |-> "",
     known_absences |-> None, metadata |-> None, updates |-> NoUpdates,
     max_retries |-> 0, max_days_per_week |-> None, preferred_balance |-> None,
     start_date |-> None, end_date |-> None]

\* stack: the calls of connect, init and _init_default_rules the handler is
\* inside, innermost first, each named by the place that made it
NoLoc ==
    [employee |-> None, schedule |-> None, affected_schedules |-> {},
     employee_counts |-> {}, stack |-> <<>>, connection_attempts |-> 0,
     attempt |-> 0, existing_rules |-> None, current_rules |-> None]

NoRet == [kind |-> "none", val |-> None]
Returned(v) == [kind |-> "return", val |-> v]
Raised == [kind |-> "raise", val |-> None]

Tables == [employees |-> employees, schedules |-> schedules, rules |-> rules]

\* the first statement of each handler
Entry(o) ==
    CASE o = "create_employee" -> "ce_insert"
      [] o = "get_employee"    -> "ge_select"
      [] o = "get_employees"   -> "ges_select"
      [] o = "update_employee" -> "ue_get"
      [] o = "delete_employee" -> "de_get"
      [] o = "create_schedule" -> "cs_insert"
      [] o = "get_schedule"    -> "gs_select"
      [] o = "get_schedules"   -> "gss_select"
      [] o = "_update_employee_counts" -> "uc_reset"
      [] o = "update_schedule" -> "us_get"
      [] o = "delete_schedule" -> "ds_get"
      [] o = "connect"         -> "cn_connect"
      [] o = "init"            -> "in_loop"
      [] o = "await_up"        -> "au_ready"
      [] o = "close"           -> "cl_close"
      [] o = "get_rules"       -> "gr_select"
      [] o = "update_rules"    -> "ur_get"

Goto(p, l) == pc' = [pc EXCEPT ![p] = l]

\* the handler returns r (or raises) to its caller
Finish(p, r) ==
    /\ pc' = [pc EXCEPT ![p] = "done"]
    /\ ret' = [ret EXCEPT ![p] = r]
    /\ loc' = [loc EXCEPT ![p] = NoLoc]

\* the rules row; preferred_balance in hundredths (0.2 is 20)
RulesRow(m, b) == [id |-> "system_rules", max_days_per_week |-> m, preferred_balance |-> b]
DefaultRules == RulesRow(3, 20)

\* init_default_data is not running
NoBoot ==
    [phase |-> "off", today |-> 0, i |-> 0, found |-> FALSE,
     faults |-> 0, requests |-> 0]

\* the client once startup has succeeded: connect() opened the connection
\* and ran init(), which created the tables and seeded the rules row, and
\* await_up() has seen SELECT 1 succeed
Started ==
    /\ rules = {DefaultRules}
    /\ conn = "open"
    /\ live = 1
    /\ ready = TRUE
    /\ tables_created = TRUE
    /\ reachable = TRUE
    /\ failedAt = [p \in Procs |-> ""]
    /\ boot = NoBoot

Init ==
    /\ employees = {}
    /\ schedules = {}
    /\ pc = [p \in Procs |-> "idle"]
    /\ op = [p \in Procs |-> "none"]
    /\ arg = [p \in Procs |-> NoArg]
    /\ loc = [p \in Procs |-> NoLoc]
    /\ ret = [p \in Procs |-> NoRet]
    /\ uc = [p \in Procs |-> "none"]
    /\ Started
    /\ pre = Tables

\* the handlers that begin with
\*     if not self.conn or self.conn.closed: self.connect()
Reconnects(o) == o \notin {"connect", "init", "await_up", "close"}

\* a caller invokes handler o with arguments a
Invoke(p, o, a) ==
    /\ IF Reconnects(o) /\ conn # "open"
       THEN /\ pc' = [pc EXCEPT ![p] = "cn_connect"]
            /\ loc' = [loc EXCEPT ![p].stack = <<"handler">>]
       ELSE /\ pc' = [pc EXCEPT ![p] = Entry(o)]
            /\ UNCHANGED loc
    /\ op' = [op EXCEPT ![p] = o]
    /\ arg' = [arg EXCEPT ![p] = a]
    /\ UNCHANGED <<employees, schedules, ret, uc, failedAt>>

\* the caller takes the result; the process is free for the next call
Return(p) ==
    /\ pc[p] = "done"
    /\ pc' = [pc EXCEPT ![p] = "idle"]
    /\ op' = [op EXCEPT ![p] = "none"]
    /\ arg' = [arg EXCEPT ![p] = NoArg]
    /\ ret' = [ret EXCEPT ![p] = NoRet]
    /\ uc' = [uc EXCEPT ![p] = "none"]
    /\ failedAt' = [failedAt EXCEPT ![p] = ""]
    /\ UNCHANGED <<employees, schedules, loc>>

-----------------------------------------------------------------------------
(* Employee handlers *)

\* known_absences = known_absences or []; metadata = metadata or {}
OrEmptyList(x) == IF x = None THEN <<>> ELSE x[1]
OrEmptyDict(x) == IF x = None THEN {} ELSE x[1]

create_employee(p) ==
    /\ pc[p] = "ce_insert"
    /\ employees' = InsertEmployee(employees, arg[p].employee_number,
                        arg[p].name, OrEmptyList(arg[p].known_absences),
                        OrEmptyDict(arg[p].metadata))
    /\ Finish(p, Returned(arg[p].employee_number))
    /\ UNCHANGED <<schedules, op, arg, uc, pre, client, store, failedAt, boot>>

get_employee(p) ==
    /\ pc[p] = "ge_select"
    /\ Finish(p, Returned(SelectEmployee(employees, arg[p].employee_number)))
    /\ UNCHANGED <<employees, schedules, op, arg, uc, pre, client, store, failedAt, boot>>

get_employees(p) ==
    /\ pc[p] = "ges_select"
    /\ Finish(p, Returned(employees))
    /\ UNCHANGED <<employees, schedules, op, arg, uc, pre, client, store, failedAt, boot>>

\* employee = self.get_employee(employee_number); if not employee: return False
update_employee_get(p) ==
    /\ pc[p] = "ue_get"
    /\ LET employee == SelectEmployee(employees, arg[p].employee_number) IN
         IF employee = None
         THEN Finish(p, Returned(FALSE))
         ELSE /\ Goto(p, "ue_update")
              /\ loc' = [loc EXCEPT ![p].employee = employee]
              /\ UNCHANGED ret
    /\ UNCHANGED <<employees, schedules, op, arg, uc, pre, client, store, failedAt, boot>>

\* (faulty variant: a merge that blanks the fields updates does not name)
MergedOverBlank(employee, updates) ==
    [f \in Fields |->
        IF updates[f] # None THEN updates[f][1]
        ELSE IF f = "name" THEN ""
        ELSE IF f = "first_line_support_count" THEN 0
        ELSE IF f = "known_absences" THEN <<>>
        ELSE {}]

\* for key, value in updates.items(): employee[key] = value
Merged(employee, updates) ==
    [f \in Fields |-> IF updates[f] = None THEN employee[f] ELSE updates[f][1]]

update_employee_update(p) ==
    /\ pc[p] = "ue_update"
    /\ LET employee == Merged(loc[p].employee[1], arg[p].updates) IN
         employees' = UpdateEmployeeRow(employees, arg[p].employee_number,
                          employee.name, employee.first_line_support_count,
                          employee.known_absences, employee.metadata)
    /\ Finish(p, Returned(TRUE))
    /\ UNCHANGED <<schedules, op, arg, uc, pre, client, store, failedAt, boot>>

delete_employee_get(p) ==
    /\ pc[p] = "de_get"
    /\ LET employee == SelectEmployee(employees, arg[p].employee_number) IN
         IF employee = None
         THEN Finish(p, Returned(FALSE))
         ELSE /\ Goto(p, "de_select")
              /\ loc' = [loc EXCEPT ![p].employee = employee]
              /\ UNCHANGED ret
    /\ UNCHANGED <<employees, schedules, op, arg, uc, pre, client, store, failedAt, boot>>

delete_employee_select(p) ==
    /\ pc[p] = "de_select"
    /\ LET affected_schedules ==
             SelectDatesOf(schedules, arg[p].employee_number) IN
         /\ Goto(p, IF affected_schedules # {} THEN "de_delete_schedules"
                                               ELSE "de_delete_employee")
         /\ loc' = [loc EXCEPT ![p].affected_schedules = affected_schedules]
    /\ UNCHANGED <<employees, schedules, op, arg, ret, uc, pre, client, store, failedAt, boot>>

delete_employee_schedules(p) ==
    /\ pc[p] = "de_delete_schedules"
    /\ schedules' = DeleteSchedulesOf(schedules, arg[p].employee_number)
    /\ Goto(p, "de_delete_employee")
    /\ UNCHANGED <<employees, op, arg, loc, ret, uc, pre, client, store, failedAt, boot>>

\* the DELETE raises while a schedule row names the employee (the foreign
\* key); the handler logs the exception and returns False.  Otherwise
\* rows_deleted = cursor.rowcount; return rows_deleted > 0
delete_employee_employee(p) ==
    /\ pc[p] = "de_delete_employee"
    /\ IF ForeignKeyBlocksDelete(schedules, arg[p].employee_number)
       THEN /\ Finish(p, Returned(FALSE))
            /\ UNCHANGED employees
       ELSE /\ employees' = DeleteEmployeeRow(employees, arg[p].employee_number)
            /\ Finish(p, Returned(
                   Cardinality(EmployeesOf(employees, arg[p].employee_number)) > 0))
    /\ UNCHANGED <<schedules, op, arg, uc, pre, client, store, failedAt, boot>>

-----------------------------------------------------------------------------
(* _update_employee_counts, the last step of every schedule mutation *)

\* what the mutation returns once _update_employee_counts has returned:
\* create_schedule returns date_str, update_schedule and delete_schedule True;
\* _update_employee_counts itself returns None
AfterCounts(p) ==
    Finish(p, Returned(IF op[p] = "create_schedule" THEN arg[p].date_str
                       ELSE IF op[p] = "_update_employee_counts" THEN None
                       ELSE TRUE))

\* logger.info("Updated employee first-line support counts")
CountsUpdated(p) ==
    /\ uc' = [uc EXCEPT ![p] = "updated"]
    /\ AfterCounts(p)

update_employee_counts_reset(p) ==
    /\ pc[p] = "uc_reset"
    /\ employees' = ResetCounts(employees)
    /\ Goto(p, "uc_select")
    /\ UNCHANGED <<schedules, op, arg, loc, ret, uc, pre, client, store, failedAt, boot>>

update_employee_counts_select(p) ==
    /\ pc[p] = "uc_select"
    /\ LET employee_counts == GroupCounts(schedules) IN
         IF employee_counts = {}
         THEN CountsUpdated(p)
         ELSE /\ Goto(p, "uc_update")
              /\ loc' = [loc EXCEPT ![p].employee_counts = employee_counts]
              /\ UNCHANGED <<ret, uc>>
    /\ UNCHANGED <<employees, schedules, op, arg, pre, client, store, failedAt, boot>>

\* for emp_id, count in employee_counts: one UPDATE each, in the order the
\* GROUP BY happened to return the groups
update_employee_counts_update(p) ==
    /\ pc[p] = "uc_update"
    /\ \E ec \in loc[p].employee_counts :
         /\ employees' = SetCount(employees, ec[1], ec[2])
         /\ IF loc[p].employee_counts = {ec}
            THEN CountsUpdated(p)
            ELSE /\ loc' = [loc EXCEPT ![p].employee_counts = @ \ {ec}]
                 /\ UNCHANGED <<pc, ret, uc>>
    /\ UNCHANGED <<schedules, op, arg, pre, client, store, failedAt, boot>>

-----------------------------------------------------------------------------
(* Schedule handlers *)

\* the INSERT raises when no employee row has the number (the foreign key);
\* create_schedule logs the exception and raises it again
create_schedule_insert(p) ==
    /\ pc[p] = "cs_insert"
    /\ IF ForeignKeyHolds(employees, arg[p].employee_number)
       THEN /\ schedules' = InsertSchedule(schedules, arg[p].date_str,
                                 arg[p].employee_number)
            /\ Goto(p, "uc_reset")
            /\ UNCHANGED <<loc, ret>>
       ELSE /\ Finish(p, Raised)
            /\ UNCHANGED schedules
    /\ UNCHANGED <<employees, op, arg, uc, pre, client, store, failedAt, boot>>

get_schedule(p) ==
    /\ pc[p] = "gs_select"
    /\ Finish(p, Returned(SelectSchedule(schedules, arg[p].date_str)))
    /\ UNCHANGED <<employees, schedules, op, arg, uc, pre, client, store, failedAt, boot>>

\* schedule = self.get_schedule(date_str); if not schedule: return False
update_schedule_get(p) ==
    /\ pc[p] = "us_get"
    /\ LET schedule == SelectSchedule(schedules, arg[p].date_str) IN
         IF schedule = None
         THEN Finish(p, Returned(FALSE))
         ELSE /\ Goto(p, "us_update")
              /\ loc' = [loc EXCEPT ![p].schedule = schedule]
              /\ UNCHANGED ret
    /\ UNCHANGED <<employees, schedules, op, arg, uc, pre, client, store, failedAt, boot>>

\* rows_updated = cursor.rowcount; an UPDATE that would store a number
\* with no employee row raises, and update_schedule returns False
update_schedule_update(p) ==
    /\ pc[p] = "us_update"
    /\ LET rows_updated == Cardinality(SchedulesOn(schedules, arg[p].date_str)) IN
         IF rows_updated > 0
         THEN IF ForeignKeyHolds(employees, arg[p].employee_number)
              THEN /\ schedules' = UpdateScheduleRow(schedules, arg[p].date_str,
                                        arg[p].employee_number)
                   /\ Goto(p, "uc_reset")
                   /\ UNCHANGED <<loc, ret>>
              ELSE /\ Finish(p, Returned(FALSE))
                   /\ UNCHANGED schedules
         ELSE /\ Finish(p, Returned(FALSE))
              /\ UNCHANGED schedules
    /\ UNCHANGED <<employees, op, arg, uc, pre, client, store, failedAt, boot>>

delete_schedule_get(p) ==
    /\ pc[p] = "ds_get"
    /\ LET schedule == SelectSchedule(schedules, arg[p].date_str) IN
         IF schedule = None
         THEN Finish(p, Returned(FALSE))
         ELSE /\ Goto(p, "ds_delete")
              /\ loc' = [loc EXCEPT ![p].schedule = schedule]
              /\ UNCHANGED ret
    /\ UNCHANGED <<employees, schedules, op, arg, uc, pre, client, store, failedAt, boot>>

delete_schedule_delete(p) ==
    /\ pc[p] = "ds_delete"
    /\ LET rows_deleted == Cardinality(SchedulesOn(schedules, arg[p].date_str)) IN
         IF rows_deleted > 0
         THEN /\ schedules' = DeleteScheduleRow(schedules, arg[p].date_str)
              /\ Goto(p, "uc_reset")
              /\ UNCHANGED <<loc, ret>>
         ELSE /\ Finish(p, Returned(FALSE))
              /\ UNCHANGED schedules
    /\ UNCHANGED <<employees, op, arg, uc, pre, client, store, failedAt, boot>>

-----------------------------------------------------------------------------
(* A statement that fails: cursor.execute raises (the store cancels the    *)
(* statement, times out, runs out of a resource) and writes nothing.  Each *)
(* handler's except clause decides what its caller sees.                   *)

\* get_employee and get_schedule log a warning and return None, so the
\* handler that called them takes the "not found" branch: return False
LookupStatements == {"ue_get", "de_get", "us_get", "ds_get"}
\* except Exception: logger.exception(...); return False
SwallowedStatements ==
    {"ue_update", "de_select", "de_delete_schedules", "de_delete_employee",
     "us_update", "ds_delete"}
\* except Exception: logger.exception(...); raise
RaisedStatements == {"ce_insert", "cs_insert", "ges_select", "gss_select"}
\* except Exception as e: logger.warning(...); return None
NoneStatements == {"ge_select", "gs_select"}
\* _update_employee_counts: except Exception: logger.exception("Failed to
\* update employee counts"); the mutation goes on to return success
CountStatements == {"uc_reset", "uc_select", "uc_update"}

Fails(p) ==
    /\ \/ /\ pc[p] \in LookupStatements \cup SwallowedStatements
          /\ Finish(p, Returned(FALSE))
          /\ UNCHANGED uc
       \/ /\ pc[p] \in RaisedStatements
          /\ Finish(p, Raised)
          /\ UNCHANGED uc
       \/ /\ pc[p] \in NoneStatements
          /\ Finish(p, Returned(None))
          /\ UNCHANGED uc
       \/ /\ pc[p] \in CountStatements
          /\ uc' = [uc EXCEPT ![p] = "failed"]
          /\ AfterCounts(p)
    /\ failedAt' = [failedAt EXCEPT ![p] = pc[p]]
    /\ UNCHANGED <<employees, schedules, op, arg, pre, client, store>>

StatementFails(p) == Fails(p) /\ UNCHANGED boot

\* one statement of the handler p is in, executed by a reachable store
EmployeeWrite(p) ==
    \/ create_employee(p)
    \/ update_employee_get(p)
    \/ update_employee_update(p)
    \/ delete_employee_get(p)
    \/ delete_employee_select(p)
    \/ delete_employee_schedules(p)
    \/ delete_employee_employee(p)

EmployeeRead(p) ==
    \/ get_employee(p)
    \/ get_employees(p)

ScheduleWrite(p) ==
    \/ create_schedule_insert(p)
    \/ update_schedule_get(p)
    \/ update_schedule_update(p)
    \/ delete_schedule_get(p)
    \/ delete_schedule_delete(p)
    \/ update_employee_counts_reset(p)
    \/ update_employee_counts_select(p)
    \/ update_employee_counts_update(p)

ScheduleRead(p) == get_schedule(p)

Statement(p) ==
    EmployeeWrite(p) \/ EmployeeRead(p) \/ ScheduleWrite(p) \/ ScheduleRead(p)

-----------------------------------------------------------------------------
(* The calls the callers make *)

Optional(S) == {None} \cup {Some(x) : x \in S}

CreateEmployeeArgs(names, absences, metadatas) ==
    {[NoArg EXCEPT !.employee_number = n, !.name = nm,
                   !.known_absences = ka, !.metadata = md] :
        n \in EmployeeNumbers, nm \in names, ka \in absences, md \in metadatas}

UpdatesOf(names, counts, absences, metadatas) ==
    [name : Optional(names), first_line_support_count : Optional(counts),
     known_absences : Optional(absences), metadata : Optional(metadatas)]

UpdateEmployeeArgs(updates) ==
    {[NoArg EXCEPT !.employee_number = n, !.updates = u] :
        n \in EmployeeNumbers, u \in updates}

NumberArgs == {[NoArg EXCEPT !.employee_number = n] : n \in EmployeeNumbers}

ScheduleArgs ==
    {[NoArg EXCEPT !.date_str = d, !.employee_number = n] :
        d \in Dates, n \in EmployeeNumbers}

DateArgs == {[NoArg EXCEPT !.date_str = d] : d \in Dates}

ScheduleMutations ==
    ({"create_schedule", "update_schedule"} \X ScheduleArgs)
    \cup ({"delete_schedule"} \X DateArgs)

Reads ==
    ({"get_employee"} \X NumberArgs) \cup {<<"get_employees", NoArg>>}
    \cup ({"get_schedule"} \X DateArgs)

\* every call with every argument of the bounded domains
AllCalls ==
    ({"create_employee"} \X
        CreateEmployeeArgs(Names, Optional(AbsenceLists), Optional(Metadatas)))
    \cup ({"update_employee"} \X UpdateEmployeeArgs(
              UpdatesOf(Names, 0..MaxCountInput, AbsenceLists, Metadatas)))
    \cup ({"delete_employee"} \X NumberArgs)
    \cup ScheduleMutations \cup Reads

\* The only caller that writes: pre keeps the tables as its call found them
\* (while it is between calls, the tables as they are).
Call(p, calls) ==
    /\ pc[p] = "idle"
    /\ \E c \in calls : Invoke(p, c[1], c[2])
    /\ UNCHANGED <<pre, client, store, boot>>

Resume(p) ==
    /\ Return(p)
    /\ pre' = Tables
    /\ UNCHANGED <<client, store, boot>>

\* a caller that runs beside others
ConcurrentCall(p, calls) ==
    /\ pc[p] = "idle"
    /\ \E c \in calls : Invoke(p, c[1], c[2])
    /\ UNCHANGED <<pre, client, store, boot>>

ConcurrentReturn(p) ==
    /\ Return(p)
    /\ UNCHANGED <<pre, client, store, boot>>

-----------------------------------------------------------------------------
(* One caller, one call at a time, on a reachable store *)

NextSeq == Call(Caller, AllCalls) \/ Statement(Caller) \/ Resume(Caller)

SpecSeq == Init /\ [][NextSeq]_vars

\* ... on a store whose statements can fail
NextFault ==
    Call(Caller, AllCalls) \/ Statement(Caller) \/ StatementFails(Caller)
    \/ Resume(Caller)

SpecFault == Init /\ [][NextFault]_vars

-----------------------------------------------------------------------------
(* Properties of one caller's calls *)

RowCount(scheds, n) == Cardinality(SchedulesFor(scheds, n))

\* every employee's first_line_support_count is its number of schedule rows
CountsMatch ==
    \A e \in employees :
        e.first_line_support_count = RowCount(schedules, e.employee_number)

Quiet(p) == pc[p] \in {"idle", "done"}

Done(p, o) == pc[p] = "done" /\ op[p] = o

\* the call reported success: create_schedule returned its date,
\* update_schedule and delete_schedule returned True
Succeeded(p) ==
    /\ ret[p].kind = "return"
    /\ op[p] \in {"update_schedule", "delete_schedule"} => ret[p].val = TRUE

CountsOf(emps) ==
    {<<e.employee_number, e.first_line_support_count>> : e \in emps}

\* C1: between the calls of a single caller on a reachable store, every
\* employee's first_line_support_count equals the number of schedule rows
\* that name the employee.
C1_CountsMatchBetweenCalls ==
    Quiet(Caller) => CountsMatch

\* C5: create_schedule with an employee_number that no employee row has
\* raises, and leaves the schedules table and every employee's count as the
\* call found them.
C5_UnknownEmployeeRejected ==
    (/\ Done(Caller, "create_schedule")
     /\ EmployeesOf(pre.employees, arg[Caller].employee_number) = {})
    => /\ ret[Caller].kind = "raise"
       /\ schedules = pre.schedules
       /\ CountsOf(employees) = CountsOf(pre.employees)

\* a rejected create_schedule for a date that has a row, beside an employee
\* with a count
C5_Witness ==
    /\ Done(Caller, "create_schedule")
    /\ EmployeesOf(pre.employees, arg[Caller].employee_number) = {}
    /\ SchedulesOn(pre.schedules, arg[Caller].date_str) # {}
    /\ \E e \in employees : e.first_line_support_count > 0

\* C8: delete_employee(n) on an employee that k schedule rows name removes
\* exactly those k rows and the employee row, returns True, and leaves every
\* other employee row and every other schedule row as it was.
C8_DeleteEmployeeCascade ==
    (/\ Done(Caller, "delete_employee")
     /\ EmployeesOf(pre.employees, arg[Caller].employee_number) # {})
    => /\ ret[Caller] = Returned(TRUE)
       /\ employees = pre.employees
               \ EmployeesOf(pre.employees, arg[Caller].employee_number)
       /\ schedules = pre.schedules
               \ SchedulesFor(pre.schedules, arg[Caller].employee_number)

\* the deleted employee had schedule rows, and so has another employee
C8_Witness ==
    /\ Done(Caller, "delete_employee")
    /\ SchedulesFor(pre.schedules, arg[Caller].employee_number) # {}
    /\ \E e \in employees :
          /\ e.first_line_support_count > 0
          /\ SchedulesFor(schedules, e.employee_number) # {}

\* C9: a date never has more than one schedule row, and the row of a date
\* changes only by a successful create_schedule or update_schedule for that
\* date, after which it names that call's employee (or by a delete, which
\* removes it): the row names the employee of the last successful write.
C9_LastWriteWins ==
    /\ \A d \in Dates : Cardinality(SchedulesOn(schedules, d)) <= 1
    /\ pc[Caller] = "done" =>
         \A d \in Dates :
            IF /\ op[Caller] \in {"create_schedule", "update_schedule"}
               /\ Succeeded(Caller)
               /\ arg[Caller].date_str = d
            THEN SchedulesOn(schedules, d)
                     = {ScheduleRow(d, arg[Caller].employee_number)}
            ELSE IF op[Caller] \in {"delete_schedule", "delete_employee"}
            THEN SchedulesOn(schedules, d) \subseteq SchedulesOn(pre.schedules, d)
            ELSE SchedulesOn(schedules, d) = SchedulesOn(pre.schedules, d)

\* a create_schedule or update_schedule that replaced the employee of a date
C9_Witness ==
    /\ pc[Caller] = "done"
    /\ op[Caller] \in {"create_schedule", "update_schedule"}
    /\ Succeeded(Caller)
    /\ \E s \in SchedulesOn(pre.schedules, arg[Caller].date_str) :
          s.first_line_support # arg[Caller].employee_number

\* C10: create_employee for a number that has a row leaves exactly one row
\* for the number, with the name, known_absences and metadata of the call
\* and the first_line_support_count of the old row; every other employee
\* row is unchanged.
C10_CreateEmployeeUpsert ==
    (/\ Done(Caller, "create_employee")
     /\ EmployeesOf(pre.employees, arg[Caller].employee_number) # {})
    => LET n == arg[Caller].employee_number
           old == CHOOSE e \in EmployeesOf(pre.employees, n) : TRUE
       IN  /\ Cardinality(EmployeesOf(employees, n)) = 1
           /\ employees = (pre.employees \ EmployeesOf(pre.employees, n))
                \cup {EmployeeRow(n, arg[Caller].name,
                          old.first_line_support_count,
                          OrEmptyList(arg[Caller].known_absences),
                          OrEmptyDict(arg[Caller].metadata))}

\* the old row had a count and another name, absences and metadata
C10_Witness ==
    /\ Done(Caller, "create_employee")
    /\ \E old \in EmployeesOf(pre.employees, arg[Caller].employee_number) :
          /\ old.first_line_support_count > 0
          /\ old.name # arg[Caller].name
          /\ old.known_absences # OrEmptyList(arg[Caller].known_absences)
          /\ old.metadata # OrEmptyDict(arg[Caller].metadata)
    /\ Cardinality(employees) = 2

\* C6: a schedule mutation that reports success has completed
\* _update_employee_counts after its own write.
C6_SuccessMeansCountsUpdated ==
    (/\ pc[Caller] = "done"
     /\ op[Caller] \in {"create_schedule", "update_schedule", "delete_schedule"}
     /\ Succeeded(Caller))
    => uc[Caller] = "updated"

\* C7: delete_employee either removes the employee row and every schedule
\* row that names the employee and returns True, or leaves both tables as
\* they were and returns False.
C7_DeleteEmployeeAllOrNothing ==
    Done(Caller, "delete_employee") =>
        LET n == arg[Caller].employee_number IN
        \/ /\ ret[Caller] = Returned(TRUE)
           /\ employees = pre.employees \ EmployeesOf(pre.employees, n)
           /\ schedules = pre.schedules \ SchedulesFor(pre.schedules, n)
        \/ /\ ret[Caller] = Returned(FALSE)
           /\ employees = pre.employees
           /\ schedules = pre.schedules

-----------------------------------------------------------------------------
(* Callers that share the client: their statements interleave *)

\* both employees exist and no date is scheduled (the tables after two
\* create_employee calls)
InitStaffed ==
    /\ employees = {EmployeeRow(n, "Lars", 0, <<>>, {}) : n \in EmployeeNumbers}
    /\ schedules = {}
    /\ pc = [p \in Procs |-> "idle"]
    /\ op = [p \in Procs |-> "none"]
    /\ arg = [p \in Procs |-> NoArg]
    /\ loc = [p \in Procs |-> NoLoc]
    /\ ret = [p \in Procs |-> NoRet]
    /\ uc = [p \in Procs |-> "none"]
    /\ Started
    /\ pre = Tables

\* concurrent schedule mutations
NextSched ==
    \E p \in Procs :
        \/ ConcurrentCall(p, ScheduleMutations)
        \/ ScheduleWrite(p)
        \/ ConcurrentReturn(p)

SpecSched == InitStaffed /\ [][NextSched]_vars

\* one caller mutates schedules while the others read employees
EmployeeReads ==
    ({"get_employee"} \X NumberArgs) \cup {<<"get_employees", NoArg>>}

NextRead ==
    \/ Call(Caller, ScheduleMutations)
    \/ ScheduleWrite(Caller)
    \/ Resume(Caller)
    \/ \E p \in Procs \ {Caller} :
          \/ ConcurrentCall(p, EmployeeReads)
          \/ EmployeeRead(p)
          \/ ConcurrentReturn(p)

SpecRead == InitStaffed /\ [][NextRead]_vars

\* concurrent employee and schedule mutations
ConcurrentMutations ==
    ({"create_employee"} \X CreateEmployeeArgs({"Lars"}, {None}, {None}))
    \cup ({"update_employee"} \X UpdateEmployeeArgs(
              {[NoUpdates EXCEPT !.name = Some("Lars")]}))
    \cup ({"delete_employee"} \X NumberArgs)
    \cup ScheduleMutations

NextConc ==
    \E p \in Procs :
        \/ ConcurrentCall(p, ConcurrentMutations)
        \/ EmployeeWrite(p)
        \/ ScheduleWrite(p)
        \/ ConcurrentReturn(p)

SpecConc == Init /\ [][NextConc]_vars

\* C2: once every concurrent schedule mutation has returned, every
\* employee's first_line_support_count equals its number of schedule rows.
C2_CountsMatchOnceAllReturned ==
    (\A p \in Procs : Quiet(p)) => CountsMatch

\* the counts a read returned, as (employee_number, count) pairs
CountsRead(o, r) ==
    IF r.kind # "return" THEN {}
    ELSE IF o = "get_employees" THEN CountsOf(r.val)
    ELSE IF r.val = None THEN {} ELSE CountsOf({r.val[1]})

\* C3: while _update_employee_counts runs for a mutation that left the
\* schedule rows of employee e alone, a get_employee or get_employees never
\* returns a count for e other than e's number of schedule rows.
C3_NoTornCount ==
    [][\A p \in Procs \ {Caller} :
          (/\ pc[p] \in {"ge_select", "ges_select"}
           /\ pc'[p] = "done"
           /\ pc[Caller] \in CountStatements)
          => \A c \in CountsRead(op[p], ret'[p]) :
                (/\ c[1] # arg[Caller].employee_number
                 /\ SchedulesFor(schedules, c[1])
                        = SchedulesFor(pre.schedules, c[1]))
                => c[2] = RowCount(schedules, c[1])]_vars

\* C4: every schedule row names an existing employee.
C4_NoDanglingReference ==
    \A s \in schedules : EmployeesOf(employees, s.first_line_support) # {}

\* delete_employee found no schedule row of its employee, a concurrent
\* create_schedule or update_schedule then stored one, and the delete of the
\* employee row is next
C4_Witness ==
    \E p, q \in Procs :
        /\ pc[p] = "de_delete_employee"
        /\ loc[p].affected_schedules = {}
        /\ op[q] \in {"create_schedule", "update_schedule"}
        /\ pc[q] \in CountStatements
        /\ arg[q].employee_number = arg[p].employee_number
        /\ SchedulesFor(schedules, arg[p].employee_number) # {}

-----------------------------------------------------------------------------
(* Failures of the mutating handlers *)

\* the INSERT, UPDATE and DELETE statements of the handlers that report
\* a missing key by returning False
WriteStatements ==
    {"ue_update", "de_delete_schedules", "de_delete_employee",
     "us_update", "ds_delete", "ur_update", "ur_insert"}
FalseOnMissing ==
    {"update_employee", "delete_employee", "update_schedule",
     "delete_schedule", "update_rules"}

\* C11: when a write statement of update_employee, delete_employee,
\* update_schedule, delete_schedule or update_rules fails, the call raises:
\* it does not return a value, as it does for a key that is not there.
C11_WriteFailureRaises ==
    \A p \in Procs :
        (/\ pc[p] = "done"
         /\ op[p] \in FalseOnMissing
         /\ failedAt[p] \in WriteStatements)
        => ret[p] = Raised

\* the key the call names is in no row of its table
EmployeeMissing(p) == EmployeesOf(pre.employees, arg[p].employee_number) = {}
ScheduleMissing(p) == SchedulesOn(pre.schedules, arg[p].date_str) = {}

\* C12: on a reachable store, update_employee, delete_employee,
\* update_schedule and delete_schedule return False for a key that is not
\* there, get_employee and get_schedule return None, none of them raises,
\* and the employees, schedules and rules tables stay as they were.
C12_MissingKeyIsNotAnError ==
    pc[Caller] = "done" =>
        /\ (op[Caller] \in {"update_employee", "delete_employee"} /\ EmployeeMissing(Caller))
              => ret[Caller] = Returned(FALSE) /\ Tables = pre
        /\ (op[Caller] \in {"update_schedule", "delete_schedule"} /\ ScheduleMissing(Caller))
              => ret[Caller] = Returned(FALSE) /\ Tables = pre
        /\ (op[Caller] = "get_employee" /\ EmployeeMissing(Caller))
              => ret[Caller] = Returned(None) /\ Tables = pre
        /\ (op[Caller] = "get_schedule" /\ ScheduleMissing(Caller))
              => ret[Caller] = Returned(None) /\ Tables = pre

\* get_employee answered None for a missing key while other rows exist
C12_Witness ==
    /\ Done(Caller, "get_employee")
    /\ EmployeeMissing(Caller)
    /\ ret[Caller] = Returned(None)
    /\ employees # {}
    /\ schedules # {}

-----------------------------------------------------------------------------
(* The connection: connect, init, _init_default_rules, await_up, close *)

\* what a step of these procedures leaves alone besides the client's fields
data == <<employees, schedules, op, arg, uc, pre, failedAt, boot>>

\* the call made at `site` begins at statement `entry`
Enter(p, site, entry) ==
    /\ pc' = [pc EXCEPT ![p] = entry]
    /\ loc' = [loc EXCEPT ![p].stack = <<site>> \o @]

\* where the caller goes on when the call it made at `site` returns
After(p, site) ==
    CASE site = "handler"  -> Entry(op[p])
      [] site = "cn_init"  -> "cn_done"
      [] site = "in_try"   -> "in_loop"
      [] site = "au_first" -> "au_probe"
      [] site = "au_retry" -> "au_probe"
      [] site = "in_seed"  -> "in_done"
      [] site = "gr_seed"  -> "gr_reselect"

\* where it goes on when that call raises; "" when no except clause
\* encloses the call, so that the exception leaves the handler
Catch(site) ==
    CASE site = "cn_init"  -> "cn_done"
      [] site = "in_try"   -> "in_failed"
      [] site = "au_retry" -> "au_probe"
      [] OTHER             -> ""

\* the innermost call returns, or raises
Leave(p, raises) ==
    LET stack == loc[p].stack IN
    IF stack = <<>>
    THEN Finish(p, IF raises THEN Raised ELSE Returned(None))
    ELSE IF raises /\ Catch(Head(stack)) = ""
    THEN Finish(p, Raised)
    ELSE /\ pc' = [pc EXCEPT ![p] =
                     IF raises THEN Catch(Head(stack)) ELSE After(p, Head(stack))]
         /\ loc' = [loc EXCEPT ![p].stack = Tail(stack)]
         /\ UNCHANGED ret

\* connect: psycopg.connect(...); max_retries and the delays are not used
connect_open(p) ==
    /\ pc[p] = "cn_connect"
    /\ IF reachable
       THEN /\ live' = live + 1
            /\ Goto(p, "cn_assign")
            /\ UNCHANGED <<loc, ret>>
       ELSE /\ Leave(p, TRUE)
            /\ UNCHANGED live
    /\ UNCHANGED <<data, store, conn, ready, tables_created>>

\* connect: self.conn = <the new connection>; the connection that self.conn
\* named before loses its last reference and is closed; then self.init()
connect_assign(p) ==
    /\ pc[p] = "cn_assign"
    /\ conn' = "open"
    /\ live' = IF conn = "open" THEN live - 1 ELSE live
    /\ Enter(p, "cn_init", "in_loop")
    /\ UNCHANGED <<data, store, ret, ready, tables_created>>

\* connect returns (an exception of init was logged as a warning)
connect_done(p) ==
    /\ pc[p] = "cn_done"
    /\ Leave(p, FALSE)
    /\ UNCHANGED <<data, store, client>>

\* init: while not self.conn and connection_attempts < max_retries.
\* The init that connect calls finds self.conn set and skips the loop.
init_loop(p) ==
    /\ pc[p] = "in_loop"
    /\ IF conn = "none" /\ loc[p].connection_attempts < arg[p].max_retries
       THEN Enter(p, "in_try", "cn_connect")
       ELSE Goto(p, "in_created") /\ UNCHANGED loc
    /\ UNCHANGED <<data, store, client, ret>>

\* (faulty variant: a failed attempt is never the last)
init_failed_unbounded(p) ==
    /\ pc[p] = "in_failed"
    /\ pc' = [pc EXCEPT ![p] = "in_loop"]
    /\ loc' = [loc EXCEPT ![p].connection_attempts = @ + 1]
    /\ UNCHANGED <<data, store, client, ret>>

\* init: except: connection_attempts += 1; sleep and go round, or raise
init_failed(p) ==
    /\ pc[p] = "in_failed"
    /\ IF loc[p].connection_attempts + 1 < arg[p].max_retries
       THEN /\ pc' = [pc EXCEPT ![p] = "in_loop"]
            /\ loc' = [loc EXCEPT ![p].connection_attempts = @ + 1]
            /\ UNCHANGED ret
       ELSE Leave(p, TRUE)
    /\ UNCHANGED <<data, store, client>>

\* init: if self._tables_created: return
init_created(p) ==
    /\ pc[p] = "in_created"
    /\ IF tables_created
       THEN Leave(p, FALSE)
       ELSE Goto(p, "in_ddl") /\ UNCHANGED <<loc, ret>>
    /\ UNCHANGED <<data, store, client>>

\* init: CREATE SCHEMA / TABLE IF NOT EXISTS; self._tables_created = True;
\* then self._init_default_rules()
init_ddl(p) ==
    /\ pc[p] = "in_ddl"
    /\ IF conn = "open"
       THEN /\ tables_created' = TRUE
            /\ Enter(p, "in_seed", "idr_select")
            /\ UNCHANGED ret
       ELSE /\ Leave(p, TRUE)
            /\ UNCHANGED tables_created
    /\ UNCHANGED <<data, store, conn, live, ready>>

\* init returns
init_done(p) ==
    /\ pc[p] = "in_done"
    /\ Leave(p, FALSE)
    /\ UNCHANGED <<data, store, client>>

-----------------------------------------------------------------------------
(* The rules table: _init_default_rules, get_rules, update_rules *)

\* SELECT ... FROM rules WHERE id = 'system_rules'; fetchone()
SelectRules(rs) ==
    IF rs = {} THEN None ELSE Some(CHOOSE r \in rs : TRUE)

\* id VARCHAR(50) PRIMARY KEY: an INSERT of a second 'system_rules' row fails
PrimaryKeyTaken(rs) == \E r \in rs : r.id = "system_rules"

\* UPDATE rules SET max_days_per_week, preferred_balance WHERE id = 'system_rules'
UpdateRulesRow(rs, m, b) == {RulesRow(m, b) : r \in rs}

\* the dict get_rules returns
RulesDict(m, b) == [max_days_per_week |-> m, preferred_balance |-> b]
DefaultRulesDict == RulesDict(3, 20)

\* _init_default_rules: SELECT; an exception is logged and swallowed
init_default_rules_select(p) ==
    /\ pc[p] = "idr_select"
    /\ IF conn = "open"
       THEN /\ pc' = [pc EXCEPT ![p] = "idr_insert"]
            /\ loc' = [loc EXCEPT ![p].existing_rules = SelectRules(rules)]
            /\ UNCHANGED ret
       ELSE Leave(p, FALSE)
    /\ UNCHANGED <<data, store, client>>

\* _init_default_rules: if not existing_rules: INSERT ('system_rules', 3, 0.2)
init_default_rules_insert(p) ==
    /\ pc[p] = "idr_insert"
    /\ rules' = IF /\ loc[p].existing_rules = None
                   /\ conn = "open"
                   /\ ~PrimaryKeyTaken(rules)
                THEN rules \cup {DefaultRules}
                ELSE rules
    /\ Leave(p, FALSE)
    /\ UNCHANGED <<data, reachable, client>>

\* get_rules returns v, to update_rules when that called it
ReturnRules(p, v) ==
    IF loc[p].stack = <<>>
    THEN Finish(p, Returned(v))
    ELSE /\ pc' = [pc EXCEPT ![p] = "ur_update"]
         /\ loc' = [loc EXCEPT ![p].stack = Tail(@),
                               ![p].current_rules = Some(v)]
         /\ UNCHANGED ret

\* get_rules: SELECT; without a row, _init_default_rules() and SELECT again
get_rules_select(p) ==
    /\ pc[p] = "gr_select"
    /\ IF conn # "open"
       THEN ReturnRules(p, DefaultRulesDict)
       ELSE IF SelectRules(rules) = None
       THEN Enter(p, "gr_seed", "idr_select") /\ UNCHANGED ret
       ELSE LET r == SelectRules(rules)[1] IN
            ReturnRules(p, RulesDict(r.max_days_per_week, r.preferred_balance))
    /\ UNCHANGED <<data, store, client>>

\* get_rules: the second SELECT; the hard-coded defaults if still no row
get_rules_reselect(p) ==
    /\ pc[p] = "gr_reselect"
    /\ IF conn # "open" \/ SelectRules(rules) = None
       THEN ReturnRules(p, DefaultRulesDict)
       ELSE LET r == SelectRules(rules)[1] IN
            ReturnRules(p, RulesDict(r.max_days_per_week, r.preferred_balance))
    /\ UNCHANGED <<data, store, client>>

\* update_rules: current_rules = self.get_rules()
update_rules_get(p) ==
    /\ pc[p] = "ur_get"
    /\ Enter(p, "ur_rules", "gr_select")
    /\ UNCHANGED <<data, store, client, ret>>

\* for key, value in updates.items(): if value is not None: current_rules[key] = value
MergedRules(current, a) ==
    RulesDict(IF a.max_days_per_week = None THEN current.max_days_per_week
              ELSE a.max_days_per_week[1],
              IF a.preferred_balance = None THEN current.preferred_balance
              ELSE a.preferred_balance[1])

\* update_rules: UPDATE ... WHERE id = 'system_rules'; rowcount
update_rules_update(p) ==
    LET new == MergedRules(loc[p].current_rules[1], arg[p]) IN
    /\ pc[p] = "ur_update"
    /\ IF conn # "open"
       THEN /\ Finish(p, Returned(FALSE))
            /\ failedAt' = [failedAt EXCEPT ![p] = "ur_update"]
            /\ UNCHANGED rules
       ELSE IF rules = {}
       THEN /\ Goto(p, "ur_insert")
            /\ UNCHANGED <<loc, ret, rules, failedAt>>
       ELSE /\ rules' = UpdateRulesRow(rules, new.max_days_per_week, new.preferred_balance)
            /\ Finish(p, Returned(TRUE))
            /\ UNCHANGED failedAt
    /\ UNCHANGED <<employees, schedules, op, arg, uc, pre, boot, reachable, client>>

\* update_rules: if rows_updated == 0: INSERT
update_rules_insert(p) ==
    LET new == MergedRules(loc[p].current_rules[1], arg[p]) IN
    /\ pc[p] = "ur_insert"
    /\ IF conn # "open" \/ PrimaryKeyTaken(rules)
       THEN /\ Finish(p, Returned(FALSE))
            /\ failedAt' = [failedAt EXCEPT ![p] = "ur_insert"]
            /\ UNCHANGED rules
       ELSE /\ rules' = rules \cup {RulesRow(new.max_days_per_week, new.preferred_balance)}
            /\ Finish(p, Returned(TRUE))
            /\ UNCHANGED failedAt
    /\ UNCHANGED <<employees, schedules, op, arg, uc, pre, boot, reachable, client>>

-----------------------------------------------------------------------------
(* await_up, close, and what happens to the store meanwhile *)

\* await_up: if self._is_query_service_ready: return;
\* if not self.conn: self.connect()   (outside any try)
await_up_ready(p) ==
    /\ pc[p] = "au_ready"
    /\ IF ready
       THEN Finish(p, Returned(None))
       ELSE IF conn = "none"
       THEN Enter(p, "au_first", "cn_connect") /\ UNCHANGED ret
       ELSE Goto(p, "au_probe") /\ UNCHANGED <<loc, ret>>
    /\ UNCHANGED <<data, store, client>>

\* await_up: for attempt in range(1, max_retries + 1): SELECT 1;
\* after the last attempt, raise
await_up_probe(p) ==
    /\ pc[p] = "au_probe"
    /\ IF loc[p].attempt >= arg[p].max_retries
       THEN Finish(p, Raised) /\ UNCHANGED ready
       ELSE IF conn = "open"
       THEN Finish(p, Returned(None)) /\ ready' = TRUE
       ELSE /\ pc' = [pc EXCEPT ![p] = "au_sleep"]
            /\ loc' = [loc EXCEPT ![p].attempt = @ + 1]
            /\ UNCHANGED <<ret, ready>>
    /\ UNCHANGED <<data, store, conn, live, tables_created>>

\* await_up: except: time.sleep(delay);
\* try: if self.conn.closed: self.connect()  except: pass
await_up_sleep(p) ==
    /\ pc[p] = "au_sleep"
    /\ IF conn = "closed"
       THEN Enter(p, "au_retry", "cn_connect")
       ELSE Goto(p, "au_probe") /\ UNCHANGED loc
    /\ UNCHANGED <<data, store, client, ret>>

\* close: if self.conn and not self.conn.closed: self.conn.close()
close(p) ==
    /\ pc[p] = "cl_close"
    /\ conn' = IF conn = "open" THEN "closed" ELSE conn
    /\ live' = IF conn = "open" THEN live - 1 ELSE live
    /\ Finish(p, Returned(None))
    /\ UNCHANGED <<data, store, ready, tables_created>>

\* no process is between psycopg.connect(...) returning and its result
\* being assigned to self.conn
NoneAssigning == \A p \in Procs : pc[p] # "cn_assign"

\* the store stops accepting connections; the open connection breaks
StoreGoesDown ==
    /\ reachable
    /\ NoneAssigning
    /\ reachable' = FALSE
    /\ conn' = IF conn = "open" THEN "closed" ELSE conn
    /\ live' = IF conn = "open" THEN live - 1 ELSE live
    /\ UNCHANGED <<data, pc, loc, ret, rules, ready, tables_created>>

StoreComesUp ==
    /\ ~reachable
    /\ reachable' = TRUE
    /\ UNCHANGED <<data, pc, loc, ret, rules, client>>

\* the server or the network drops the connection while the store stays up
ConnectionLost ==
    /\ conn = "open"
    /\ reachable
    /\ NoneAssigning
    /\ conn' = "closed"
    /\ live' = live - 1
    /\ UNCHANGED <<data, pc, loc, ret, store, ready, tables_created>>

\* one step of connect, and of the init and _init_default_rules it calls
Reconnecting(p) ==
    \/ connect_open(p)
    \/ connect_assign(p)
    \/ connect_done(p)
    \/ init_loop(p)
    \/ init_created(p)
    \/ init_ddl(p)
    \/ init_done(p)
    \/ init_default_rules_select(p)
    \/ init_default_rules_insert(p)

\* one step of connect, init or _init_default_rules
Connecting(p) ==
    \/ Reconnecting(p)
    \/ init_failed(p)

AwaitUp(p) ==
    \/ await_up_ready(p)
    \/ await_up_probe(p)
    \/ await_up_sleep(p)

\* a statement on a connection that is not open raises
Lookup(p) ==
    \/ conn = "open" /\ get_employee(p)
    \/ conn = "open" /\ get_schedule(p)
    \/ conn # "open" /\ pc[p] \in NoneStatements /\ StatementFails(p)

RetryArgs == {[NoArg EXCEPT !.max_retries = k] : k \in 1..MaxRetries}

ConnectionCalls ==
    ({"close"} \X {NoArg})
        \cup ({"connect", "init", "await_up"} \X RetryArgs)
        \cup ({"get_employee"} \X NumberArgs)
        \cup ({"get_schedule"} \X DateArgs)

\* the client as __init__ leaves it, beside a store that may hold rows
InitNew ==
    /\ employees \in {{}, {EmployeeRow(n, "Lars", 0, <<>>, {}) : n \in {"EMP001"}}}
    /\ schedules = {}
    /\ rules \in {{}, {DefaultRules}}
    /\ pc = [p \in Procs |-> "idle"]
    /\ op = [p \in Procs |-> "none"]
    /\ arg = [p \in Procs |-> NoArg]
    /\ loc = [p \in Procs |-> NoLoc]
    /\ ret = [p \in Procs |-> NoRet]
    /\ uc = [p \in Procs |-> "none"]
    /\ conn = "none"
    /\ live = 0
    /\ ready = FALSE
    /\ tables_created = FALSE
    /\ reachable \in BOOLEAN
    /\ failedAt = [p \in Procs |-> ""]
    /\ boot = NoBoot
    /\ pre = Tables

\* one caller, a store that comes and goes
NextConn ==
    \/ Call(Caller, ConnectionCalls)
    \/ Connecting(Caller)
    \/ AwaitUp(Caller)
    \/ close(Caller)
    \/ Lookup(Caller)
    \/ Resume(Caller)
    \/ StoreGoesDown
    \/ StoreComesUp
    \/ ConnectionLost

SpecConn == InitNew /\ [][NextConn]_vars

-----------------------------------------------------------------------------
(* Properties of the connection *)

\* C13: get_employee and get_schedule do not raise, whatever the state of
\* the connection and of the store: a lookup that cannot read the store
\* returns None.
C13_LookupDoesNotRaise ==
    \A p \in Procs :
        (pc[p] = "done" /\ op[p] \in {"get_employee", "get_schedule"})
        => ret[p].kind = "return"

\* C14: await_up called on a client without a connection while the store is
\* unreachable does not raise: it goes on probing, and raises only when
\* max_retries attempts have failed.
C14_AwaitUpRaisesOnlyWhenExhausted ==
    [][\A p \in Procs :
          (/\ op[p] = "await_up"
           /\ pc[p] # "done"
           /\ pc'[p] = "done"
           /\ ret'[p] = Raised)
          => loc[p].attempt >= arg[p].max_retries]_vars

\* C15: once await_up has succeeded, a later await_up that finds the
\* connection closed does not return from the memoized flag: it goes on to
\* probe again.  (A later await_up that finds the connection open returns
\* at once.)
C15_ClosedConnectionProbesAgain ==
    [][\A p \in Procs :
          (pc[p] = "au_ready" /\ pc'[p] = "done")
          => (ready /\ conn = "open")]_vars

\* C16: connect tries again after a failed attempt: a call of connect whose
\* first attempt fails raises only when max_retries allows no second one.
C16_ConnectRetries ==
    [][\A p \in Procs :
          (/\ op[p] = "connect"
           /\ loc[p].stack = <<>>
           /\ pc[p] = "cn_connect"
           /\ pc'[p] = "done"
           /\ ret'[p] = Raised)
          => arg[p].max_retries <= 1]_vars

-----------------------------------------------------------------------------
(* Callers that share the client and find it without an open connection *)

LookupCalls ==
    ({"get_employee"} \X NumberArgs) \cup ({"get_schedule"} \X DateArgs)

InitReachable == InitNew /\ reachable

NextReconnect ==
    \/ \E p \in Procs :
          \/ ConcurrentCall(p, LookupCalls)
          \/ Reconnecting(p)
          \/ Lookup(p)
          \/ ConcurrentReturn(p)
    \/ ConnectionLost

SpecReconnect == InitReachable /\ [][NextReconnect]_vars

\* C17: callers that find the connection missing or closed at the same time
\* reconnect one after the other: the client never has more than one
\* connection open, so none is open without being self.conn.
C17_OneLiveConnection == live <= 1

-----------------------------------------------------------------------------
(* Callers of init, get_rules and update_rules that share the client *)

\* update_rules(updates): the two keys, either of which may be left out
RulesArgs ==
    {[NoArg EXCEPT !.max_days_per_week = m, !.preferred_balance = b] :
        m \in Optional({5}), b \in Optional({50})}

RulesCalls ==
    ({"init"} \X RetryArgs)
        \cup {<<"get_rules", NoArg>>}
        \cup ({"update_rules"} \X RulesArgs)

Rules(p) ==
    \/ get_rules_select(p)
    \/ get_rules_reselect(p)
    \/ update_rules_get(p)
    \/ update_rules_update(p)
    \/ update_rules_insert(p)

NextRules ==
    \/ \E p \in Procs :
          \/ ConcurrentCall(p, RulesCalls)
          \/ Reconnecting(p)
          \/ Rules(p)
          \/ ConcurrentReturn(p)
    \/ ConnectionLost

\* a new client beside a store without employees
InitBare == InitReachable /\ employees = {}

SpecRules == InitBare /\ [][NextRules]_vars

\* C18: once a call of init has returned and _tables_created is True, the
\* rules table holds exactly one row, the row 'system_rules', whatever
\* calls of init, get_rules and update_rules run beside each other.
C18_OneRulesRow ==
    (/\ tables_created
     /\ \E p \in Procs : Done(p, "init") /\ ret[p].kind = "return")
    => Cardinality(rules) = 1

-----------------------------------------------------------------------------
(* init_default_data (src/api/src/api/main.py) *)

\* for i in range(7): the days that are front-filled
FillDays == 7
\* for i in range(30): the days absences are generated for
LookAhead == 30

\* today, in days since reference_date (2024-01-01)
Todays == 0..(NumTodays - 1)

default_employees == <<"EMP001", "EMP002", "EMP003", "EMP004", "EMP005">>

DefaultName(n) ==
    CASE n = "EMP001" -> "Lars Larsson"
      [] n = "EMP002" -> "Dagobert Dagobertsson"
      [] n = "EMP003" -> "Karl-Gustav Karlgustavsson"
      [] n = "EMP004" -> "Kerstin Kerstinsdotter"
      [] n = "EMP005" -> "Maj-Britt Majbrittdotter"

absence_patterns == ("EMP001" :> 3) @@ ("EMP002" :> 5) @@ ("EMP004" :> 7)

InList(d, list) == \E k \in 1..Len(list) : list[k] = d

\* emp["known_absences"]: the days of the next 30 whose distance from the
\* reference date is a multiple of the employee's pattern
Absences(n, today) ==
    LET days == [k \in 1..LookAhead |-> today + k - 1]
        OnPattern(d) == d % absence_patterns[n] = 0 IN
    IF n \in DOMAIN absence_patterns THEN SelectSeq(days, OnPattern) ELSE <<>>

\* [e for e in default_employees if date_str not in e["known_absences"]]
available_employees(today, d) ==
    LET Present(n) == ~InList(d, Absences(n, today)) IN
    SelectSeq(default_employees, Present)

\* (faulty variant: the round-robin runs over all employees, absent or not)
emp_number_of_all(today, i) ==
    default_employees[(i % Len(default_employees)) + 1]

\* available_employees[i % len(available_employees)], or when nobody is
\* available default_employees[i % len(default_employees)]
emp_number(today, i) ==
    LET available == available_employees(today, today + i) IN
    IF available # <<>>
    THEN available[(i % Len(available)) + 1]
    ELSE default_employees[(i % Len(default_employees)) + 1]

\* the process that runs init_default_data, and the one that serves requests
Bootstrap == Caller
Requester == CHOOSE p \in Procs : p # Bootstrap

\* the loop over default_employees goes on to the next employee, and after
\* the last to the front-fill
NextEmployee(b) ==
    IF b.i < Len(default_employees)
    THEN [b EXCEPT !.phase = "employees", !.i = @ + 1]
    ELSE [b EXCEPT !.phase = "fill", !.i = 0]

\* for i in range(7) goes on to the next day
NextDay(b) ==
    IF b.i + 1 < FillDays
    THEN [b EXCEPT !.phase = "fill", !.i = @ + 1]
    ELSE [b EXCEPT !.phase = "finished"]

\* employees = db.get_employees()
boot_get_employees(p) ==
    /\ boot.phase = "get_employees"
    /\ pc[p] = "idle"
    /\ Invoke(p, "get_employees", NoArg)
    /\ boot' = [boot EXCEPT !.phase = "got_employees"]
    /\ UNCHANGED <<pre, client, store>>

\* an exception of get_employees ends init_default_data
boot_got_employees(p) ==
    /\ boot.phase = "got_employees"
    /\ pc[p] = "done"
    /\ Return(p)
    /\ boot' = IF ret[p].kind = "raise"
               THEN [boot EXCEPT !.phase = "aborted"]
               ELSE [boot EXCEPT !.phase = "employees", !.i = 1,
                                 !.found = (ret[p].val # {})]
    /\ UNCHANGED <<pre, client, store>>

\* if not employees: db.create_employee(...)
\* else: existing_employee = db.get_employee(emp["employee_number"])
boot_employee(p) ==
    LET n == default_employees[boot.i] IN
    /\ boot.phase = "employees"
    /\ pc[p] = "idle"
    /\ IF boot.found
       THEN /\ Invoke(p, "get_employee", [NoArg EXCEPT !.employee_number = n])
            /\ boot' = [boot EXCEPT !.phase = "looked_up"]
       ELSE /\ Invoke(p, "create_employee",
                      [NoArg EXCEPT !.employee_number = n,
                                    !.name = DefaultName(n),
                                    !.known_absences = Some(Absences(n, boot.today))])
            /\ boot' = [boot EXCEPT !.phase = "created"]
    /\ UNCHANGED <<pre, client, store>>

\* created, or the exception logged as a warning
boot_created(p) ==
    /\ boot.phase = "created"
    /\ pc[p] = "done"
    /\ Return(p)
    /\ boot' = NextEmployee(boot)
    /\ UNCHANGED <<pre, client, store>>

\* if existing_employee: ...
boot_looked_up(p) ==
    /\ boot.phase = "looked_up"
    /\ pc[p] = "done"
    /\ Return(p)
    /\ boot' = IF ret[p].kind = "return" /\ ret[p].val # None
               THEN [boot EXCEPT !.phase = "update"]
               ELSE NextEmployee(boot)
    /\ UNCHANGED <<pre, client, store>>

\* db.update_employee(emp["employee_number"], {"known_absences": ...})
boot_update(p) ==
    LET n == default_employees[boot.i] IN
    /\ boot.phase = "update"
    /\ pc[p] = "idle"
    /\ Invoke(p, "update_employee",
              [NoArg EXCEPT !.employee_number = n,
                            !.updates = [NoUpdates EXCEPT
                                !.known_absences = Some(Absences(n, boot.today))]])
    /\ boot' = [boot EXCEPT !.phase = "updated"]
    /\ UNCHANGED <<pre, client, store>>

\* the value update_employee returned is not looked at
boot_updated(p) ==
    /\ boot.phase = "updated"
    /\ pc[p] = "done"
    /\ Return(p)
    /\ boot' = NextEmployee(boot)
    /\ UNCHANGED <<pre, client, store>>

\* existing_schedule = db.get_schedule(date_str)
boot_get_schedule(p) ==
    /\ boot.phase = "fill"
    /\ pc[p] = "idle"
    /\ Invoke(p, "get_schedule", [NoArg EXCEPT !.date_str = boot.today + boot.i])
    /\ boot' = [boot EXCEPT !.phase = "checked"]
    /\ UNCHANGED <<pre, client, store>>

\* if existing_schedule: continue
boot_checked(p) ==
    /\ boot.phase = "checked"
    /\ pc[p] = "done"
    /\ Return(p)
    /\ boot' = IF ret[p].kind = "return" /\ ret[p].val # None
               THEN NextDay(boot)
               ELSE [boot EXCEPT !.phase = "assign"]
    /\ UNCHANGED <<pre, client, store>>

\* db.create_schedule(date_str=date_str, employee_number=emp_number)
boot_create_schedule(p) ==
    /\ boot.phase = "assign"
    /\ pc[p] = "idle"
    /\ Invoke(p, "create_schedule",
              [NoArg EXCEPT !.date_str = boot.today + boot.i,
                            !.employee_number = emp_number(boot.today, boot.i)])
    /\ boot' = [boot EXCEPT !.phase = "assigned"]
    /\ UNCHANGED <<pre, client, store>>

\* created, or the exception logged as a warning
boot_assigned(p) ==
    /\ boot.phase = "assigned"
    /\ pc[p] = "done"
    /\ Return(p)
    /\ boot' = NextDay(boot)
    /\ UNCHANGED <<pre, client, store>>

init_default_data(p) ==
    \/ boot_get_employees(p)
    \/ boot_got_employees(p)
    \/ boot_employee(p)
    \/ boot_created(p)
    \/ boot_looked_up(p)
    \/ boot_update(p)
    \/ boot_updated(p)
    \/ boot_get_schedule(p)
    \/ boot_checked(p)
    \/ boot_create_schedule(p)
    \/ boot_assigned(p)

\* a statement of a call made by init_default_data fails
boot_fails(p) ==
    /\ boot.faults < MaxFaults
    /\ Fails(p)
    /\ boot' = [boot EXCEPT !.faults = @ + 1]

\* the rows an earlier run of init_default_data on the same day left
StoredDefaults(today) ==
    {EmployeeRow(default_employees[k], DefaultName(default_employees[k]), 0,
                 Absences(default_employees[k], today), {}) :
        k \in 1..Len(default_employees)}

\* ... after update_employee(n, {"known_absences": list}) by a user
WithAbsences(emps, n, list) ==
    {IF e.employee_number = n THEN [e EXCEPT !.known_absences = list] ELSE e :
        e \in emps}

\* ... after create_schedule(d, n) by a user
WithSchedule(emps, n) ==
    {IF e.employee_number = n THEN [e EXCEPT !.first_line_support_count = 1] ELSE e :
        e \in emps}

\* what the store may hold when init_default_data starts
BootStores(today) ==
    {[employees |-> {}, schedules |-> {}],
     [employees |-> StoredDefaults(today), schedules |-> {}],
     [employees |-> WithAbsences(StoredDefaults(today), "EMP003", <<today + 2>>),
      schedules |-> {}],
     [employees |-> WithSchedule(StoredDefaults(today), "EMP005"),
      schedules |-> {ScheduleRow(today + 1, "EMP005")}],
     [employees |-> {EmployeeRow("EMP001", "Lars", 0, <<>>, {})},
      schedules |-> {}]}

\* lifespan has connected and starts init_default_data
InitBoot ==
    /\ \E today \in Todays :
          /\ boot = [NoBoot EXCEPT !.phase = "get_employees", !.today = today]
          /\ \E st \in BootStores(today) :
                employees = st.employees /\ schedules = st.schedules
    /\ rules = {DefaultRules}
    /\ pc = [p \in Procs |-> "idle"]
    /\ op = [p \in Procs |-> "none"]
    /\ arg = [p \in Procs |-> NoArg]
    /\ loc = [p \in Procs |-> NoLoc]
    /\ ret = [p \in Procs |-> NoRet]
    /\ uc = [p \in Procs |-> "none"]
    /\ conn = "open"
    /\ live = 1
    /\ ready = TRUE
    /\ tables_created = TRUE
    /\ reachable = TRUE
    /\ failedAt = [p \in Procs |-> ""]
    /\ pre = Tables

\* the statements of the calls init_default_data makes
BootStatement(p) ==
    \/ create_employee(p)
    \/ get_employee(p)
    \/ get_employees(p)
    \/ update_employee_get(p)
    \/ update_employee_update(p)
    \/ get_schedule(p)
    \/ create_schedule_insert(p)
    \/ update_employee_counts_reset(p)
    \/ update_employee_counts_select(p)
    \/ update_employee_counts_update(p)

\* init_default_data alone, on a store that may fail a statement
NextBoot ==
    \/ init_default_data(Bootstrap)
    \/ BootStatement(Bootstrap)
    \/ boot_fails(Bootstrap)

SpecBoot == InitBoot /\ [][NextBoot]_vars

\* a request that changes a schedule arrives while init_default_data runs
Request(p) ==
    /\ boot.requests < MaxRequests
    /\ pc[p] = "idle"
    /\ \E c \in ScheduleMutations : Invoke(p, c[1], c[2])
    /\ boot' = [boot EXCEPT !.requests = @ + 1]
    /\ UNCHANGED <<pre, client, store>>

\* the statements only requests execute
RequestStatement(p) ==
    \/ update_schedule_get(p)
    \/ update_schedule_update(p)
    \/ delete_schedule_get(p)
    \/ delete_schedule_delete(p)

\* init_default_data in its thread beside a request, on a store that works
NextBootRace ==
    \/ init_default_data(Bootstrap)
    \/ Request(Requester)
    \/ ConcurrentReturn(Requester)
    \/ \E p \in Procs : BootStatement(p)
    \/ RequestStatement(Requester)

SpecBootRace == InitBoot /\ [][NextBootRace]_vars

\* C19: init_default_data never changes the employee of a schedule row that
\* exists: not when a request creates the row between its get_schedule and
\* its create_schedule, and not when its get_schedule fails.
C19_BootstrapKeepsExistingRows ==
    [][(/\ pc[Bootstrap] = "cs_insert"
        /\ pc'[Bootstrap] # "cs_insert")
       => \A s \in SchedulesOn(schedules, arg[Bootstrap].date_str) :
             s \in schedules']_vars

\* C20: when init_default_data assigns an employee to a date on which some
\* stored employee is not absent, the date is not among the known absences
\* the store holds for the assigned employee.
C20_AssignedIsNotAbsent ==
    [][(/\ pc[Bootstrap] = "cs_insert"
        /\ pc'[Bootstrap] = "uc_reset"
        /\ \E e \in employees : ~InList(arg[Bootstrap].date_str, e.known_absences))
       => \A e \in EmployeesOf(employees, arg[Bootstrap].employee_number) :
             ~InList(arg[Bootstrap].date_str, e.known_absences)]_vars

-----------------------------------------------------------------------------
(* Partial updates *)

\* C21: update_employee(n, updates) on an employee that exists returns
\* True; of name, known_absences and metadata, the fields updates names
\* hold the given values; every field updates does not name, every other
\* employee row and every schedule row is as it was.
C21_UpdateEmployeeFrame ==
    (Done(Caller, "update_employee") /\ ~EmployeeMissing(Caller)) =>
        LET n == arg[Caller].employee_number
            updates == arg[Caller].updates IN
        /\ ret[Caller] = Returned(TRUE)
        /\ \A old \in EmployeesOf(pre.employees, n) :
           \E new \in EmployeesOf(employees, n) :
              /\ EmployeesOf(employees, n) = {new}
              /\ \A f \in {"name", "known_absences", "metadata"} :
                    updates[f] # None => new[f] = updates[f][1]
              /\ \A f \in Fields : updates[f] = None => new[f] = old[f]
        /\ employees \ EmployeesOf(employees, n)
              = pre.employees \ EmployeesOf(pre.employees, n)
        /\ schedules = pre.schedules

\* an update that names the name only, of an employee with absences and
\* schedule rows, beside another employee
C21_Witness ==
    /\ Done(Caller, "update_employee")
    /\ ~EmployeeMissing(Caller)
    /\ arg[Caller].updates.name # None
    /\ arg[Caller].updates.known_absences = None
    /\ \E old \in EmployeesOf(pre.employees, arg[Caller].employee_number) :
          /\ old.name # arg[Caller].updates.name[1]
          /\ old.known_absences # <<>>
    /\ SchedulesFor(schedules, arg[Caller].employee_number) # {}
    /\ Cardinality(employees) > 1

-----------------------------------------------------------------------------
(* Schedules in a date range *)

NumRangeDates == 4
RangeDates == 1..NumRangeDates

\* ORDER BY date ASC
RECURSIVE OrderByDate(_)
OrderByDate(rows) ==
    IF rows = {} THEN <<>>
    ELSE LET first == CHOOSE r \in rows : \A q \in rows : r.date <= q.date IN
         <<first>> \o OrderByDate(rows \ {first})

\* (faulty variant: the end date is excluded)
SelectSchedulesBefore(scheds, start_date, end_date) ==
    OrderByDate({s \in scheds :
        /\ start_date # None => s.date >= start_date[1]
        /\ end_date # None => s.date < end_date[1]})

\* SELECT date, first_line_support FROM schedules
\*     [WHERE date >= start_date] [AND date <= end_date] ORDER BY date ASC
\* a condition is added for a bound that is given
SelectSchedules(scheds, start_date, end_date) ==
    OrderByDate({s \in scheds :
        /\ start_date # None => s.date >= start_date[1]
        /\ end_date # None => s.date <= end_date[1]})

get_schedules(p) ==
    /\ pc[p] = "gss_select"
    /\ Finish(p, Returned(SelectSchedules(schedules, arg[p].start_date,
                                          arg[p].end_date)))
    /\ UNCHANGED <<employees, schedules, op, arg, uc, pre, client, store, failedAt, boot>>

\* the bounds reach one day past either end of the stored dates
RangeArgs ==
    {[NoArg EXCEPT !.start_date = s, !.end_date = e] :
        s \in Optional(0..NumRangeDates + 1), e \in Optional(0..NumRangeDates + 1)}

RangeCalls == {"get_schedules"} \X RangeArgs

\* both employees exist, any of the dates is scheduled for either of them
\* and the counts agree with the rows
InitRange ==
    /\ \E on \in [RangeDates -> EmployeeNumbers \cup {""}] :
          /\ schedules = {ScheduleRow(d, on[d]) : d \in {x \in RangeDates : on[x] # ""}}
          /\ employees =
                {EmployeeRow(n, "Lars",
                             Cardinality({d \in RangeDates : on[d] = n}), <<>>, {}) :
                    n \in EmployeeNumbers}
    /\ pc = [p \in Procs |-> "idle"]
    /\ op = [p \in Procs |-> "none"]
    /\ arg = [p \in Procs |-> NoArg]
    /\ loc = [p \in Procs |-> NoLoc]
    /\ ret = [p \in Procs |-> NoRet]
    /\ uc = [p \in Procs |-> "none"]
    /\ Started
    /\ pre = Tables

NextRange ==
    \/ Call(Caller, RangeCalls)
    \/ get_schedules(Caller)
    \/ Resume(Caller)

SpecRange == InitRange /\ [][NextRange]_vars

InRange(d, start_date, end_date) ==
    /\ start_date # None => start_date[1] <= d
    /\ end_date # None => d <= end_date[1]

\* C22: get_schedules(start_date, end_date) returns exactly the schedule rows
\* whose date d has start_date <= d and d <= end_date, both ends inclusive
\* and a bound that is not given not limiting, each row once, in ascending
\* order of date.
C22_GetSchedulesRange ==
    Done(Caller, "get_schedules") =>
        /\ ret[Caller].kind = "return"
        /\ LET rows == ret[Caller].val
               wanted == {s \in schedules :
                            InRange(s.date, arg[Caller].start_date,
                                    arg[Caller].end_date)} IN
           /\ {rows[k] : k \in 1..Len(rows)} = wanted
           /\ Len(rows) = Cardinality(wanted)
           /\ \A i, j \in 1..Len(rows) : i < j => rows[i].date < rows[j].date

\* both bounds given on stored dates, rows on both bounds and on either side
C22_Witness ==
    /\ Done(Caller, "get_schedules")
    /\ arg[Caller].start_date = Some(2)
    /\ arg[Caller].end_date = Some(3)
    /\ Cardinality(schedules) = NumRangeDates
    /\ Len(ret[Caller].val) = 2
    /\ ret[Caller].val[2].date = 3

-----------------------------------------------------------------------------
(* update_rules, one call at a time *)

\* a rules table without a row (the seeding of init failed), with the
\* default row, or with a row an earlier update_rules wrote
InitRulesSeq ==
    /\ employees = {}
    /\ schedules = {}
    /\ pc = [p \in Procs |-> "idle"]
    /\ op = [p \in Procs |-> "none"]
    /\ arg = [p \in Procs |-> NoArg]
    /\ loc = [p \in Procs |-> NoLoc]
    /\ ret = [p \in Procs |-> NoRet]
    /\ uc = [p \in Procs |-> "none"]
    /\ rules \in {{}, {DefaultRules}, {RulesRow(4, 30)}}
    /\ conn = "open"
    /\ live = 1
    /\ ready = TRUE
    /\ tables_created = TRUE
    /\ reachable = TRUE
    /\ failedAt = [p \in Procs |-> ""]
    /\ boot = NoBoot
    /\ pre = Tables

RulesStatements ==
    {"gr_select", "gr_reselect", "idr_select", "idr_insert", "ur_update", "ur_insert"}

\* one statement of the call raises:
\* get_rules:           except Exception: return the hard-coded defaults
\* _init_default_rules: except Exception: logger.warning(...)
\* update_rules:        except Exception: return False
rules_statement_fails(p) ==
    /\ pc[p] \in RulesStatements
    /\ failedAt[p] = ""
    /\ failedAt' = [failedAt EXCEPT ![p] = pc[p]]
    /\ CASE pc[p] \in {"gr_select", "gr_reselect"} -> ReturnRules(p, DefaultRulesDict)
         [] pc[p] \in {"idr_select", "idr_insert"} -> Leave(p, FALSE)
         [] OTHER -> Finish(p, Returned(FALSE))
    /\ UNCHANGED <<employees, schedules, op, arg, uc, pre, boot, store, client>>

UpdateRulesCalls == {"update_rules"} \X RulesArgs

NextRulesSeq ==
    \/ Call(Caller, UpdateRulesCalls)
    \/ Rules(Caller)
    \/ init_default_rules_select(Caller)
    \/ init_default_rules_insert(Caller)
    \/ rules_statement_fails(Caller)
    \/ Resume(Caller)

SpecRulesSeq == InitRulesSeq /\ [][NextRulesSeq]_vars

RuleFields == {"max_days_per_week", "preferred_balance"}

\* C23: when update_rules(updates) has returned True, the rules table
\* holds one row; a field that updates gives with a value that is not None
\* holds that value, and every other field holds the value that was stored
\* when the call began (any value when no row was stored).
C23_UpdateRulesMerge ==
    (Done(Caller, "update_rules") /\ ret[Caller] = Returned(TRUE)) =>
        \E r \in rules :
           /\ rules = {r}
           /\ \A f \in RuleFields :
                 IF arg[Caller][f] # None
                 THEN r[f] = arg[Caller][f][1]
                 ELSE \A old \in pre.rules : r[f] = old[f]

-----------------------------------------------------------------------------
(* _update_employee_counts on its own *)

MaxDrift == 2

\* EMP001 is stored, EMP002 is stored or not; each date is free or assigned
\* to a stored employee; the stored counts are any numbers up to MaxDrift
InitDrifted ==
    /\ \E ns \in {{"EMP001"}, EmployeeNumbers} :
       \E count \in [ns -> 0..MaxDrift] :
       \E on \in [Dates -> ns \cup {""}] :
          /\ employees =
                {EmployeeRow(n, DefaultName(n), count[n],
                             IF n = "EMP001" THEN <<1>> ELSE <<>>, {}) : n \in ns}
          /\ schedules = {ScheduleRow(d, on[d]) : d \in {x \in Dates : on[x] # ""}}
    /\ pc = [p \in Procs |-> "idle"]
    /\ op = [p \in Procs |-> "none"]
    /\ arg = [p \in Procs |-> NoArg]
    /\ loc = [p \in Procs |-> NoLoc]
    /\ ret = [p \in Procs |-> NoRet]
    /\ uc = [p \in Procs |-> "none"]
    /\ Started
    /\ pre = Tables

NextReconcile ==
    \/ Call(Caller, {<<"_update_employee_counts", NoArg>>})
    \/ update_employee_counts_reset(Caller)
    \/ update_employee_counts_select(Caller)
    \/ update_employee_counts_update(Caller)
    \/ Resume(Caller)

SpecReconcile == InitDrifted /\ [][NextReconcile]_vars

WithoutCount(e) == [f \in DOMAIN e \ {"first_line_support_count"} |-> e[f]]

\* C24: when _update_employee_counts, run on its own from any stored
\* counts, has returned, every employee's first_line_support_count is its
\* number of schedule rows (zero for an employee without one), every other
\* field of every employee row is as it was, and so is every schedule row.
C24_ReconcileRepairsCounts ==
    Done(Caller, "_update_employee_counts") =>
        /\ \A e \in employees :
              e.first_line_support_count
                 = Cardinality({s \in schedules : s.first_line_support = e.employee_number})
        /\ {WithoutCount(e) : e \in employees}
              = {WithoutCount(e) : e \in pre.employees}
        /\ Cardinality(employees) = Cardinality(pre.employees)
        /\ schedules = pre.schedules

\* an employee without a row whose count had drifted up, beside one with
\* rows whose count had drifted too
C24_Witness ==
    /\ Done(Caller, "_update_employee_counts")
    /\ \E e \in pre.employees :
          /\ SchedulesFor(schedules, e.employee_number) = {}
          /\ e.first_line_support_count > 0
    /\ \E e \in pre.employees :
          /\ RowCount(schedules, e.employee_number) = 2
          /\ e.first_line_support_count = 1

-----------------------------------------------------------------------------
(* init_default_data on its own, on a store that works *)

\* the rules table: without a row, with the default row, with other values
BootRules == {{}, {DefaultRules}, {RulesRow(1, 90)}}

InitBootAlone ==
    /\ \E today \in Todays :
          /\ boot = [NoBoot EXCEPT !.phase = "get_employees", !.today = today]
          /\ \E st \in BootStores(today) :
                employees = st.employees /\ schedules = st.schedules
    /\ rules \in BootRules
    /\ pc = [p \in Procs |-> "idle"]
    /\ op = [p \in Procs |-> "none"]
    /\ arg = [p \in Procs |-> NoArg]
    /\ loc = [p \in Procs |-> NoLoc]
    /\ ret = [p \in Procs |-> NoRet]
    /\ uc = [p \in Procs |-> "none"]
    /\ conn = "open"
    /\ live = 1
    /\ ready = TRUE
    /\ tables_created = TRUE
    /\ reachable = TRUE
    /\ failedAt = [p \in Procs |-> ""]
    /\ pre = Tables

NextBootAlone ==
    \/ init_default_data(Bootstrap)
    \/ BootStatement(Bootstrap)

SpecBootAlone == InitBootAlone /\ [][NextBootAlone]_vars

\* eligible[i mod |eligible|], or allEmployees[i mod |allEmployees|] when
\* nobody is eligible
RoundRobin(today, i) ==
    LET eligible == available_employees(today, today + i) IN
    IF Len(eligible) > 0
    THEN eligible[(i % Len(eligible)) + 1]
    ELSE default_employees[(i % Len(default_employees)) + 1]

\* C25: the create_schedule that init_default_data calls for the date at
\* offset i of its window names the date and the employee
\* eligible[i mod |eligible|], eligible being the employees of its list that
\* are not absent on the date, in list order (allEmployees[i mod
\* |allEmployees|] when nobody is eligible), i counting the dates it
\* skipped too; and when it has finished, each date of the window that had
\* no row holds that employee if the store has the employee, whatever the
\* rules row and the stored counts are.
C25_RoundRobinChoice ==
    /\ (op[Bootstrap] = "create_schedule" /\ pc[Bootstrap] # "idle") =>
          /\ arg[Bootstrap].date_str = boot.today + boot.i
          /\ arg[Bootstrap].employee_number = RoundRobin(boot.today, boot.i)
    /\ boot.phase = "finished" =>
          \A i \in 0..(FillDays - 1) :
             LET d == boot.today + i IN
             SchedulesOn(pre.schedules, d) = {} =>
                SchedulesOn(schedules, d) =
                   {ScheduleRow(d, e.employee_number) :
                       e \in EmployeesOf(employees, RoundRobin(boot.today, i))}

\* the date at offset 3, with one employee absent, is being assigned after
\* the date at offset 1 was skipped, beside rules that are not the defaults
C25_Witness ==
    /\ op[Bootstrap] = "create_schedule"
    /\ pc[Bootstrap] = "cs_insert"
    /\ boot.i = 3
    /\ SchedulesOn(pre.schedules, boot.today + 1) # {}
    /\ Len(available_employees(boot.today, boot.today + 3)) < Len(default_employees)
    /\ arg[Bootstrap].employee_number # default_employees[4]
    /\ rules = {RulesRow(1, 90)}

-----------------------------------------------------------------------------
(* init comes to an end *)

\* the caller's thread is scheduled for as long as its call has a next step
SpecConnFair == SpecConn /\ WF_vars(Connecting(Caller))

\* the caller takes a step of its call
Steps(p) == pc'[p] # pc[p]

\* the innermost call returns or raises
Leaves(p) == pc'[p] = "done" \/ Len(loc'[p].stack) < Len(loc[p].stack)

\* C26: a call of init on a client without a connection ends. It begins a
\* connection attempt only while fewer than max_retries attempts have
\* failed; the attempt that fails as the max_retries-th makes it raise, an
\* earlier one makes it try again; once an attempt has succeeded it makes
\* no other and goes on to the table creation. The tables are created and
\* the rules seeded only by an init that found _tables_created False: an
\* init that finds it True returns at once.
C26_InitTerminates ==
    /\ [][LET p == Caller IN
          /\ (pc[p] = "in_loop" /\ pc'[p] = "cn_connect") =>
                (conn = "none" /\ loc[p].connection_attempts < arg[p].max_retries)
          /\ (pc[p] = "in_failed" /\ Steps(p)) =>
                IF loc[p].connection_attempts + 1 >= arg[p].max_retries
                THEN pc'[p] = "done" /\ ret'[p] = Raised
                ELSE pc'[p] = "in_loop"
          /\ (pc[p] = "in_loop" /\ conn # "none" /\ Steps(p)) => pc'[p] = "in_created"
          /\ (pc[p] = "in_created" /\ Steps(p)) =>
                IF tables_created THEN Leaves(p) ELSE pc'[p] = "in_ddl"
          /\ (pc'[p] = "in_ddl" /\ Steps(p)) => (pc[p] = "in_created" /\ ~tables_created)
          /\ (pc'[p] = "idr_select" /\ Steps(p) /\ Head(loc'[p].stack) = "in_seed") =>
                pc[p] = "in_ddl"]_vars
    /\ ((op[Caller] = "init" /\ pc[Caller] \notin {"idle", "done"})
           ~> pc[Caller] = "done")

\* init(max_retries = 2) on a new client: the second attempt has failed
C26_Witness ==
    /\ op[Caller] = "init"
    /\ pc[Caller] = "in_failed"
    /\ arg[Caller].max_retries = 2
    /\ loc[Caller].connection_attempts = 1
    /\ conn = "none"

-----------------------------------------------------------------------------
(* update_employee beside a schedule mutation *)

\* updates that name the name only
NameUpdates ==
    {"update_employee"} \X
        UpdateEmployeeArgs({[NoUpdates EXCEPT !.name = Some("Kerstin")]})

\* one caller updates employees, the other callers mutate schedules one
\* call after the other
NextStale ==
    \/ ConcurrentCall(Caller, NameUpdates)
    \/ update_employee_get(Caller)
    \/ update_employee_update(Caller)
    \/ ConcurrentReturn(Caller)
    \/ \E p \in Procs \ {Caller} :
          \/ ConcurrentCall(p, ScheduleMutations)
          \/ ScheduleWrite(p)
          \/ ConcurrentReturn(p)

SpecStale == InitStaffed /\ [][NextStale]_vars

\* C27: once an update_employee that does not name
\* first_line_support_count and the schedule mutation that ran beside it
\* have both returned, every employee's first_line_support_count is its
\* number of schedule rows.
C27_NoStaleCountWrittenBack ==
    (/\ Done(Caller, "update_employee")
     /\ \A p \in Procs \ {Caller} : Quiet(p))
    => \A e \in employees :
          e.first_line_support_count = RowCount(schedules, e.employee_number)

\* C28: when init_default_data has finished on a store that works, each of
\* the 7 dates of its window has exactly one schedule row, whatever the
\* employees and schedules tables held when it started.
C28_WindowIsFilled ==
    boot.phase = "finished" =>
        \A i \in 0..(FillDays - 1) :
            Cardinality(SchedulesOn(schedules, boot.today + i)) = 1

=============================================================================
